---- MODULE Spec2Model ----
(***************************************************************************)
(* Fraud-detection service: the FastAPI application of main.py (stream     *)
(* ingestion loop, synchronous /predict, lookup by identifier), the        *)
(* scoring function of prediction.py, the transactions table of db.py and  *)
(* the output topic of kafka_client.py.                                    *)
(*                                                                         *)
(* Probabilities are integers in units of 1/Scale.  The trained models are *)
(* files outside the repository: what a model returns for a feature vector *)
(* is an input of the action that invokes it.                              *)
(***************************************************************************)
EXTENDS Integers, Sequences, FiniteSets, TLC

VARIABLES DB_AVAILABLE, KAFKA_AVAILABLE, producer, consumer,
          scaler_amount, scaler_time, db, out, running, res

vars == <<DB_AVAILABLE, KAFKA_AVAILABLE, producer, consumer,
          scaler_amount, scaler_time, db, out, running, res>>

\* ------------------------------------------------------------------ bounds
\* probability unit: a probability p is the integer p * Scale
Scale == 20
\* rows the transactions table may hold, messages the output topic may hold
MaxRows == 2
MaxOut == 1
\* consume_transactions tasks that start-consuming requests may have added
MaxTasks == 2

\* --------------------------------------------------------- program constants
\* v1..v28
NumV == 28
\* a REAL column keeps single precision: stored values fall on a coarser grid
RealStep == 2

None == "None"
Absent == "absent"
Models == {"logistic", "kneighbors", "svc", "tree", "keras"}
ModelOrder == <<"logistic", "kneighbors", "svc", "tree", "keras">>

\* ----------------------------------------------------------- transactions
\* A transaction dictionary. Its field names are all spelled in one case
\* (upper tells which); id = Absent means there is no transaction_id field;
\* has names which of amount and time are present; missing = i > 0 means
\* v_i is not there (0: v1..v28 are all present). Feature v_i has the value
\* VValue(i).
VValue(i) == 100 + i
MkTx(id, has, amt, tm, missing, upper) ==
    [upper |-> upper, id |-> id, has |-> has, amount |-> amt, time |-> tm,
     missing |-> missing]

\* mutant: the request body carries a transaction_id
TransactionInputWithId(amt, tm) == MkTx("a", {"amount", "time"}, amt, tm, 0, FALSE)

\* TransactionInput.dict(): time, amount and v1..v28, lower case, no identifier
TransactionInput(amt, tm) == MkTx(Absent, {"amount", "time"}, amt, tm, 0, FALSE)

\* [col.lower() for col in columns]
lower(t) == [t EXCEPT !.upper = FALSE]
\* 'name' in d, for a lower-case name
HasField(t, name) ==
    /\ ~t.upper
    /\ CASE name = "transaction_id" -> t.id # Absent
         [] name \in {"amount", "time"} -> name \in t.has
HasV(t, i) == ~t.upper /\ i # t.missing
\* d.get("transaction_id", default)
get_transaction_id(t, default) == IF HasField(t, "transaction_id") THEN t.id ELSE default

\* ------------------------------------------------------------------- JSON
\* A message value or a JSONB cell is text: either the serialisation of a
\* dictionary or text that is no JSON at all.
Garbage == [json |-> FALSE]
json_dumps(d) == [json |-> TRUE, doc |-> d]
json_loads_ok(text) == text.json
json_loads(text) == text.doc
\* transaction_json ->> 'transaction_id' : the text of that key, or NULL
jsonb_transaction_id(text) ==
    IF text.json THEN get_transaction_id(text.doc, None) ELSE None

\* ----------------------------------------------------------- RobustScaler
\* RobustScaler(): no fitted parameters yet
RobustScaler == [fitted |-> FALSE, center |-> 0, scale |-> 1]
\* fit on a one-row column: the median is the value, the interquartile range
\* is 0 and a zero scale is replaced by 1
fit(x) ==
    LET iqr == x - x
    IN [fitted |-> TRUE, center |-> x, scale |-> IF iqr = 0 THEN 1 ELSE iqr]
transform(sc, x) == (x - sc.center) \div sc.scale
\* mutant: a scaler that is already fitted is used as it is
fit_once_transform(sc, x) ==
    IF sc.fitted THEN [sc |-> sc, value |-> transform(sc, x)]
    ELSE [sc |-> fit(x), value |-> transform(fit(x), x)]

\* sc.fit_transform(x) is fit(x).transform(x): the scaler as refitted and
\* the scaled value
fit_transform(sc, x) == [sc |-> fit(x), value |-> transform(fit(x), x)]

\* ----------------------------------------------------------------- models
\* What one model invocation yields: "raise", or its native output. The
\* predict_proba models and the network return a row <<non_fraud, fraud>>,
\* the SVC a decision-function margin.
Failed(o) == o.raise
\* 1 / (1 + exp(-margin)) on the probability grid: one half at margin 0,
\* increasing in the margin, within [0, 1]
sigmoid(m) ==
    LET p == (Scale \div 2) + 2 * m
    IN IF p < 0 THEN 0 ELSE IF p > Scale THEN Scale ELSE p

\* the models of ModelOrder invoked before and including the first that raises
RECURSIVE InvokedUpTo(_, _)
InvokedUpTo(mo, i) ==
    IF i > Len(ModelOrder) THEN {}
    ELSE IF Failed(mo[ModelOrder[i]]) THEN {ModelOrder[i]}
    ELSE {ModelOrder[i]} \cup InvokedUpTo(mo, i + 1)

\* mutant: selecting the expected columns tolerates a missing one
SelectNeverRaises(df) == FALSE

\* input_data[expected_columns]: KeyError unless every expected column
\* exists (scaled_amount and scaled_time were just assigned)
SelectRaises(df) == \E i \in 1..NumV : ~HasV(df, i)

\* the final dictionary built from the five native outputs
BuildPredictions(mo) ==
    [m \in Models |->
        CASE m = "svc" -> [non_fraud |-> Scale - sigmoid(mo[m].margin),
                           fraud |-> sigmoid(mo[m].margin)]
          [] m = "keras" -> [non_fraud |-> mo[m].row[1], fraud |-> mo[m].row[2]]
          [] OTHER -> <<mo[m].row[1], mo[m].row[2]>>]

\* predictions = {} until the five results are assigned
EmptyDict == [m \in {} |-> 0]

\* mutant: the exception is logged and swallowed, predictions returned as is
ProcessOutcomeSwallowed(raisedAt, preds) ==
    [raised |-> FALSE, failedAt |-> raisedAt, predictions |-> preds]

\* what process_transaction does when a step raises: log and re-raise
ProcessOutcome(raisedAt, preds) ==
    [raised |-> raisedAt # "no", failedAt |-> raisedAt, predictions |-> preds]

\* mutant: an absent column is left absent
NoDefault(df, name) == df

\* if name not in input_data.columns: input_data[name] = 0
AssignDefault(df, name) ==
    IF HasField(df, name) THEN df
    ELSE [df EXCEPT !.has = @ \cup {name}, ![name] = 0]

\* input_data['amount'] or input_data[['time']] raises KeyError when the
\* column is not there
ColumnRaises(df) == ~HasField(df, "amount") \/ ~HasField(df, "time")

\* a column of the final DataFrame: scaled_amount, scaled_time or v_i
Col(name, i) == [name |-> name, i |-> i]
\* mutant: the columns stay as the DataFrame has them, the two scaled ones
\* appended after v1..v28
appended_columns ==
    [i \in 1..NumV |-> Col("v", i)] \o <<Col("scaled_amount", 0), Col("scaled_time", 0)>>

\* ['scaled_amount', 'scaled_time'] + [f'v{i}' for i in range(1, 29)]
expected_columns ==
    <<Col("scaled_amount", 0), Col("scaled_time", 0)>> \o [i \in 1..NumV |-> Col("v", i)]
\* the value of a column in the single row
Cell(scaled_amount, scaled_time, c) ==
    CASE c.name = "scaled_amount" -> scaled_amount
      [] c.name = "scaled_time" -> scaled_time
      [] OTHER -> VValue(c.i)

\* process_transaction(transaction_data, models) with the models' outputs mo.
\* Yields the outcome, the feature columns handed to the models, the models
\* invoked and the two module-level scalers as the call leaves them.
process_transaction(t, mo, sa, st) ==
    LET df == AssignDefault(AssignDefault(lower(t), "amount"), "time")
        amount == df.amount
        time == df.time
        scaled_amount == fit_transform(sa, amount)
        scaled_time == fit_transform(st, time)
        sa2 == scaled_amount.sc
        st2 == scaled_time.sc
        input_array == [k \in DOMAIN expected_columns |->
                           Cell(scaled_amount.value, scaled_time.value,
                                expected_columns[k])]
        invoked == InvokedUpTo(mo, 1)
        modelRaised == \E m \in invoked : Failed(mo[m])
    IN IF ColumnRaises(df)
       THEN [out |-> ProcessOutcome("normalize", EmptyDict), fv |-> <<>>,
             invoked |-> {}, sa |-> IF HasField(df, "amount") THEN sa2 ELSE sa,
             st |-> st]
       ELSE IF SelectRaises(df)
       THEN [out |-> ProcessOutcome("normalize", EmptyDict), fv |-> <<>>,
             invoked |-> {}, sa |-> sa2, st |-> st2]
       ELSE IF modelRaised
       THEN [out |-> ProcessOutcome("score", EmptyDict), fv |-> input_array,
             invoked |-> invoked, sa |-> sa2, st |-> st2]
       ELSE [out |-> ProcessOutcome("no", BuildPredictions(mo)), fv |-> input_array,
             invoked |-> invoked, sa |-> sa2, st |-> st2]

\* ------------------------------------------------- the transactions table
\* a double written to a REAL column is rounded to single precision
REAL(x) == RealStep * ((x + (RealStep \div 2)) \div RealStep)

\* how an operation on the database goes: every statement succeeds, or
\* psycopg2.connect raises, or conn.cursor() raises, or execute raises, or
\* commit raises, or the connection is lost (execute and rollback both raise)
StoreOutcomes == {"ok", "connect_fail", "cursor_fail", "execute_fail",
                  "commit_fail", "conn_lost"}
QueryOutcomes == {"ok", "connect_fail", "cursor_fail", "execute_fail"}

\* id SERIAL PRIMARY KEY: the next value of the sequence
NextId(table) == Len(table) + 1

\* the parameter tuple of the INSERT raises KeyError on a missing model
ParamsRaise(predictions) == DOMAIN predictions # Models

\* mutant: an identifier that already has a row gets no second one
InsertRowOncePerId(table, transaction_json, predictions) ==
    IF \E i \in DOMAIN table :
          /\ jsonb_transaction_id(table[i].transaction_json) # None
          /\ jsonb_transaction_id(table[i].transaction_json)
               = jsonb_transaction_id(transaction_json)
    THEN table
    ELSE Append(table,
      [id |-> NextId(table),
       transaction_json |-> transaction_json,
       logistic_regression_fraud |-> REAL(predictions["logistic"][2]),
       logistic_regression_non_fraud |-> REAL(predictions["logistic"][1]),
       kneighbors_fraud |-> REAL(predictions["kneighbors"][2]),
       kneighbors_non_fraud |-> REAL(predictions["kneighbors"][1]),
       svc_fraud |-> REAL(predictions["svc"].fraud),
       svc_non_fraud |-> REAL(predictions["svc"].non_fraud),
       decision_tree_fraud |-> REAL(predictions["tree"][2]),
       decision_tree_non_fraud |-> REAL(predictions["tree"][1]),
       keras_fraud |-> REAL(predictions["keras"].fraud),
       keras_non_fraud |-> REAL(predictions["keras"].non_fraud)])

InsertRow(table, transaction_json, predictions) ==
    Append(table,
      [id |-> NextId(table),
       transaction_json |-> transaction_json,
       logistic_regression_fraud |-> REAL(predictions["logistic"][2]),
       logistic_regression_non_fraud |-> REAL(predictions["logistic"][1]),
       kneighbors_fraud |-> REAL(predictions["kneighbors"][2]),
       kneighbors_non_fraud |-> REAL(predictions["kneighbors"][1]),
       svc_fraud |-> REAL(predictions["svc"].fraud),
       svc_non_fraud |-> REAL(predictions["svc"].non_fraud),
       decision_tree_fraud |-> REAL(predictions["tree"][2]),
       decision_tree_non_fraud |-> REAL(predictions["tree"][1]),
       keras_fraud |-> REAL(predictions["keras"].fraud),
       keras_non_fraud |-> REAL(predictions["keras"].non_fraud)])

\* does an exception leave store_transaction, given how the database behaved
StoreRaises(dbo) == dbo \in {"connect_fail", "cursor_fail", "conn_lost"}

\* mutant: the inserted row stays although the commit failed
store_transaction_no_rollback(table, transaction_json, predictions, dbo) ==
    LET connected == dbo # "connect_fail"
        inTry == dbo \notin {"connect_fail", "cursor_fail"}
        executed == inTry /\ dbo \in {"ok", "commit_fail"} /\ ~ParamsRaise(predictions)
    IN [table |-> IF executed THEN InsertRow(table, transaction_json, predictions)
                  ELSE table,
        raised |-> StoreRaises(dbo),
        committed |-> executed /\ dbo = "ok",
        connected |-> connected,
        closed |-> inTry]

\* store_transaction(transaction_json, predictions): the table afterwards,
\* whether the call raised, whether a row was committed, and whether a
\* connection was obtained and whether it was closed
store_transaction(table, transaction_json, predictions, dbo) ==
    LET connected == dbo # "connect_fail"
        inTry == dbo \notin {"connect_fail", "cursor_fail"}
        committed == inTry /\ dbo = "ok" /\ ~ParamsRaise(predictions)
    IN [table |-> IF committed THEN InsertRow(table, transaction_json, predictions)
                  ELSE table,
        raised |-> StoreRaises(dbo),
        committed |-> committed,
        connected |-> connected,
        closed |-> inTry]

\* WHERE transaction_json->>'transaction_id' = %s
Matching(table, transaction_id) ==
    {i \in DOMAIN table :
        jsonb_transaction_id(table[i].transaction_json) = transaction_id}

\* mutant: ORDER BY id ASC
SelectOldest(table, transaction_id) ==
    CHOOSE i \in Matching(table, transaction_id) :
        \A j \in Matching(table, transaction_id) : table[i].id <= table[j].id

\* ORDER BY id DESC LIMIT 1
SelectLatest(table, transaction_id) ==
    CHOOSE i \in Matching(table, transaction_id) :
        \A j \in Matching(table, transaction_id) : table[j].id <= table[i].id

NoRecord == [none |-> TRUE]
RowResult(row) ==
    [none |-> FALSE,
     transaction_json |-> json_loads(row.transaction_json),
     logistic |-> <<row.logistic_regression_non_fraud, row.logistic_regression_fraud>>,
     kneighbors |-> <<row.kneighbors_non_fraud, row.kneighbors_fraud>>,
     svc |-> [non_fraud |-> row.svc_non_fraud, fraud |-> row.svc_fraud],
     tree |-> <<row.decision_tree_non_fraud, row.decision_tree_fraud>>,
     keras |-> [non_fraud |-> row.keras_non_fraud, fraud |-> row.keras_fraud]]

\* get_transaction(transaction_id): the value returned (None or the result
\* dictionary), whether the call raised, and the connection's fate
get_transaction(table, transaction_id, dbo) ==
    LET connected == dbo # "connect_fail"
        inTry == dbo \notin {"connect_fail", "cursor_fail"}
    IN [raised |-> ~inTry,
        value |-> IF inTry /\ dbo = "ok" /\ Matching(table, transaction_id) # {}
                  THEN RowResult(table[SelectLatest(table, transaction_id)])
                  ELSE NoRecord,
        connected |-> connected,
        closed |-> inTry]

\* what became of the connection of a store_transaction or get_transaction
\* call: never obtained, closed by the finally clause, or left open
ConnectionFate(call) ==
    IF ~call.connected THEN "none" ELSE IF call.closed THEN "closed" ELSE "open"

\* --------------------------------------------------------- the output topic
ProduceOutcomes == {"ok", "fail"}
\* send_to_topic(producer, topic, key, value): produce and flush inside a
\* try that logs every exception; a missing producer raises inside it too
send_to_topic(topic, prod, key, value, ko) ==
    LET sent == prod # None /\ ko = "ok"
    IN [topic |-> IF sent THEN Append(topic, [key |-> key, value |-> value]) ELSE topic,
        raised |-> FALSE,
        sent |-> sent]

\* message keys: the stream path uses the identifier text, the synchronous
\* path "pred_" followed by the hash of the transaction's text
TextKey(text) == [pred |-> FALSE, text |-> text]
HashKey(t) == [pred |-> TRUE, of |-> t]

\* ------------------------------------------------------ decision rules
RECURSIVE SumSeq(_)
SumSeq(q) == IF q = <<>> THEN 0 ELSE Head(q) + SumSeq(Tail(q))

\* mutant: the network's fraud probability enters the mean as well
fraud_probs_with_keras(predictions) ==
    <<predictions["logistic"][2], predictions["kneighbors"][2],
      predictions["svc"].fraud, predictions["tree"][2], predictions["keras"].fraud>>

\* the fraud-class probabilities that enter the mean
fraud_probs(predictions) ==
    <<predictions["logistic"][2], predictions["kneighbors"][2],
      predictions["svc"].fraud, predictions["tree"][2]>>
\* reading the four entries raises KeyError when one is not there
FraudProbsRaise(predictions) ==
    ~({"logistic", "kneighbors", "svc", "tree"} \subseteq DOMAIN predictions)
\* sum(fraud_probs) / len(fraud_probs), kept as an exact fraction
avg_fraud_prob(predictions) ==
    [num |-> SumSeq(fraud_probs(predictions)), den |-> Len(fraud_probs(predictions))]
\* mutant: avg_fraud_prob >= 0.5
is_fraud_at_least(avg) == 2 * avg.num >= avg.den * Scale

\* avg_fraud_prob > 0.5
is_fraud(avg) == 2 * avg.num > avg.den * Scale

\* the status of a looked-up record from its kneighbors pair
decideFromStoredKNN(kneighbors) ==
    IF kneighbors[1] > kneighbors[2] THEN "fraude" ELSE "aprobada"

\* ------------------------------------------------------------ handlers
\* mutant: except json.JSONDecodeError only
CaughtByLoopJsonOnly(step) == step = "parse"

\* mutant: an exception of store_transaction is not caught
CaughtByLoopNotStore(step) == step \in {"parse", "normalize", "score", "publish"}

\* except Exception in the ingestion loop: which failing steps it catches
CaughtByLoop(step) == step \in {"parse", "normalize", "score", "persist", "publish"}

\* One pass of the while loop of consume_transactions on a polled message
\* that carries no error: what it leaves behind and the steps it went through.
consume_message(value, mo, dbo, ko, table, topic, sa, st, prod) ==
    LET parsed == json_loads_ok(value)
        transaction_data == json_loads(value)
        pt == process_transaction(transaction_data, mo, sa, st)
        scored == parsed /\ ~pt.out.raised
        stx == store_transaction(table, json_dumps(transaction_data),
                                 pt.out.predictions, dbo)
        publish == scored /\ ~stx.raised
        snd == send_to_topic(topic, prod,
                             TextKey(get_transaction_id(transaction_data, "")),
                             json_dumps(pt.out.predictions), ko)
        failedAt == IF ~parsed THEN "parse"
                    ELSE IF pt.out.raised THEN pt.out.failedAt
                    ELSE IF stx.raised THEN "persist"
                    ELSE "no"
    IN [table |-> IF scored THEN stx.table ELSE table,
        topic |-> IF publish THEN snd.topic ELSE topic,
        sa |-> IF parsed THEN pt.sa ELSE sa,
        st |-> IF parsed THEN pt.st ELSE st,
        res |-> [op |-> "consume", poll |-> "msg", value |-> value,
                 trace |-> <<"receive", "parse">>
                           \o (IF parsed THEN <<"normalize">> ELSE <<>>)
                           \o (IF parsed /\ pt.out.failedAt # "normalize"
                               THEN <<"score">> ELSE <<>>)
                           \o (IF scored THEN <<"persist">> ELSE <<>>)
                           \o (IF publish THEN <<"publish">> ELSE <<>>),
                 failedAt |-> failedAt,
                 escaped |-> failedAt # "no" /\ ~CaughtByLoop(failedAt),
                 invoked |-> IF parsed THEN pt.invoked ELSE {},
                 fv |-> IF parsed THEN pt.fv ELSE <<>>,
                 predictions |-> IF parsed THEN pt.out.predictions ELSE EmptyDict,
                 store |-> IF scored THEN dbo ELSE "skipped",
                 stored |-> scored /\ stx.committed,
                 connection |-> IF scored THEN ConnectionFate(stx) ELSE "none",
                 publish |-> IF ~publish THEN "skipped"
                             ELSE IF snd.sent THEN "ok" ELSE "fail"]]

\* mutant: the failure is answered with a default non-fraud decision
PredictFailureDefault(pt) ==
    [status |-> 200, is_fraud |-> FALSE, fraud_probability |-> [num |-> 0, den |-> 4],
     models_predictions |-> pt.out.predictions]

\* what the except clause of predict_transaction does with an exception of
\* process_transaction: HTTPException(status_code=500), no response body
PredictFailure(pt) == [status |-> 500]

\* predict_transaction(transaction): the response and what it leaves behind
predict_transaction(t, mo, dbo, ko, table, topic, sa, st, prod, dbAvail, kafkaAvail) ==
    LET pt == process_transaction(t, mo, sa, st)
        predictions == pt.out.predictions
        scored == ~pt.out.raised /\ ~FraudProbsRaise(predictions)
        avg == avg_fraud_prob(predictions)
        doStore == scored /\ dbAvail
        stx == store_transaction(table, json_dumps(t), predictions, dbo)
        doSend == scored /\ kafkaAvail /\ prod # None
        snd == send_to_topic(topic, prod, HashKey(t), json_dumps(predictions), ko)
    IN [table |-> IF doStore THEN stx.table ELSE table,
        topic |-> IF doSend THEN snd.topic ELSE topic,
        sa |-> pt.sa,
        st |-> pt.st,
        res |-> [op |-> "predict", tx |-> t,
                 trace |-> <<"score">>
                           \o (IF doStore THEN <<"store">> ELSE <<>>)
                           \o (IF doSend THEN <<"publish">> ELSE <<>>)
                           \o <<"respond">>,
                 response |-> IF scored
                              THEN [status |-> 200,
                                    is_fraud |-> is_fraud(avg),
                                    fraud_probability |-> avg,
                                    models_predictions |-> predictions]
                              ELSE PredictFailure(pt),
                 failedAt |-> IF pt.out.raised THEN pt.out.failedAt
                              ELSE IF FraudProbsRaise(predictions) THEN "aggregate"
                              ELSE "no",
                 invoked |-> pt.invoked,
                 fv |-> pt.fv,
                 predictions |-> predictions,
                 store |-> IF doStore THEN dbo ELSE "skipped",
                 stored |-> doStore /\ stx.committed,
                 connection |-> IF doStore THEN ConnectionFate(stx) ELSE "none",
                 publish |-> IF ~doSend THEN "skipped"
                             ELSE IF snd.sent THEN "ok" ELSE "fail"]]

\* get_transaction_result(transaction_id)
get_transaction_result(transaction_id, dbo, table, dbAvail) ==
    LET got == get_transaction(table, transaction_id, dbo)
        transaction == got.value
    IN IF ~dbAvail THEN [op |-> "lookup", transaction_id |-> transaction_id,
                         status_code |-> 503, query |-> "skipped",
                         connection |-> "none"]
       ELSE IF got.raised THEN [op |-> "lookup", transaction_id |-> transaction_id,
                                status_code |-> 500, query |-> dbo,
                                connection |-> ConnectionFate(got)]
       ELSE IF transaction.none THEN [op |-> "lookup", transaction_id |-> transaction_id,
                                      status_code |-> 404, query |-> dbo,
                                      connection |-> ConnectionFate(got)]
       ELSE [op |-> "lookup", transaction_id |-> transaction_id,
             status_code |-> 200, query |-> dbo,
             connection |-> ConnectionFate(got),
             status |-> IF "kneighbors" \in DOMAIN transaction
                        THEN decideFromStoredKNN(transaction.kneighbors)
                        ELSE "sin resultado",
             details |-> transaction]

\* ------------------------------------------------------------ the inputs
Ids == {"a", "b"}
\* a native model output: a predict_proba / network row, a margin, a raise
Row(f) == [raise |-> FALSE, row |-> <<Scale - f, f>>]
Margin(m) == [raise |-> FALSE, margin |-> m]
Raise == [raise |-> TRUE]
Ensemble(l, k, s, t, n) ==
    [m \in Models |-> CASE m = "logistic" -> l [] m = "kneighbors" -> k
                         [] m = "svc" -> s [] m = "tree" -> t [] OTHER -> n]

\* fraud probabilities and margins the models may answer with
Probs == {8, 10, 12, 16, 18}
Margins == {-1, 0, 2}
GridOutputs ==
    {Ensemble(Row(l), Row(k), Margin(s), Row(t), Row(n)) :
        l \in Probs, k \in Probs, s \in Margins, t \in Probs, n \in {8, 12}}
RaisingOutputs(e) == {[e EXCEPT ![m] = Raise] : m \in Models}

\* the outputs used where results are also stored and published: a clear
\* non-fraud, a clear fraud, and each model raising in turn
EnsLow == Ensemble(Row(8), Row(8), Margin(-1), Row(8), Row(12))
EnsHigh == Ensemble(Row(18), Row(16), Margin(2), Row(12), Row(8))
SysOutputs == {EnsLow, EnsHigh} \cup RaisingOutputs(EnsHigh)

\* message values on the input topic: a complete transaction, one without
\* v1, and text that is no JSON
TxA == MkTx("a", {"amount", "time"}, 3, 1, 0, FALSE)
TxNoV1 == MkTx("b", {"amount", "time"}, 7, 2, 1, FALSE)
StreamValues == {json_dumps(TxA), json_dumps(TxNoV1), Garbage}
\* request bodies of the synchronous call, and the outputs used for it
\* where its results are also stored and published
SyncTxs == {TransactionInput(7, 2)}
SyncOutputs == {EnsHigh} \cup RaisingOutputs(EnsHigh)

\* the inputs of the scoring function taken alone: transactions with and
\* without identifier, amount, time and one of v1, v14, v28, in either case
EnsTie == Ensemble(Row(10), Row(10), Margin(0), Row(10), Row(10))
AnyTxs ==
    {MkTx(id, has, 5, 4, missing, upper) :
        id \in {"a", Absent}, has \in SUBSET {"amount", "time"},
        missing \in {0, 1, 14, NumV}, upper \in BOOLEAN}
AnyOutputs == {EnsLow, EnsTie} \cup RaisingOutputs(EnsTie)

\* an input that the step never reads is not enumerated
Relevant(S, read) == IF read THEN S ELSE {CHOOSE x \in S : TRUE}

\* ------------------------------------------------------------------ state
TypeOK ==
    /\ DB_AVAILABLE \in BOOLEAN /\ KAFKA_AVAILABLE \in BOOLEAN
    /\ producer \in {"Producer", None} /\ consumer \in {"Consumer", None}
    /\ Len(db) <= MaxRows /\ Len(out) <= MaxOut
    /\ running \in 0..MaxTasks

\* module load of main.py: the table exists, the models are loaded, the
\* Kafka clients are created unless Kafka is unavailable (create_producer
\* and create_consumer return None on their own errors)
Loaded ==
    /\ scaler_amount = RobustScaler
    /\ scaler_time = RobustScaler
    /\ db = <<>>
    /\ out = <<>>
    /\ running = 0
    /\ res = [op |-> "none"]

\* the database is reachable; Kafka is reachable or not
Init ==
    /\ DB_AVAILABLE = TRUE
    /\ KAFKA_AVAILABLE \in BOOLEAN
    /\ producer = IF KAFKA_AVAILABLE THEN "Producer" ELSE None
    /\ consumer = IF KAFKA_AVAILABLE THEN "Consumer" ELSE None
    /\ Loaded

Config == <<DB_AVAILABLE, KAFKA_AVAILABLE, producer, consumer>>

\* GET /start-consuming: one more consume_transactions task
StartConsuming ==
    /\ running < MaxTasks
    /\ running' = running + 1
    /\ res' = [op |-> "start"]
    /\ UNCHANGED <<Config, scaler_amount, scaler_time, db, out>>

\* consumer.poll on a consumer that is None raises outside the try: the task ends
ConsumeNoConsumer ==
    /\ running > 0
    /\ consumer = None
    /\ running' = running - 1
    /\ res' = [op |-> "consume", poll |-> "raise", trace |-> <<>>, failedAt |-> "poll",
               escaped |-> TRUE, invoked |-> {}, store |-> "skipped",
               stored |-> FALSE, publish |-> "skipped"]
    /\ UNCHANGED <<Config, scaler_amount, scaler_time, db, out>>

\* mutant: a message whose error() is set raises KafkaException
consume_idle_raise(p) ==
    [op |-> "consume", poll |-> p, trace |-> <<>>,
     failedAt |-> IF p = "error" THEN "poll" ELSE "no",
     escaped |-> p = "error", invoked |-> {}, store |-> "skipped",
     stored |-> FALSE, publish |-> "skipped",
     logged |-> FALSE, yielded |-> p = "none"]

\* One pass of the while loop when poll returns None (sleep one second,
\* continue) or a message whose error() is set (log it, continue)
consume_idle(p) ==
    [op |-> "consume", poll |-> p, trace |-> <<>>, failedAt |-> "no",
     escaped |-> FALSE, invoked |-> {}, store |-> "skipped",
     stored |-> FALSE, publish |-> "skipped",
     logged |-> p = "error", yielded |-> p = "none"]

\* poll returns None or a message whose error() is set
ConsumeIdle ==
    /\ running > 0
    /\ consumer # None
    /\ \E p \in {"none", "error"} :
          /\ res' = consume_idle(p)
          /\ running' = IF consume_idle(p).escaped THEN running - 1 ELSE running
    /\ UNCHANGED <<Config, scaler_amount, scaler_time, db, out>>

\* which inputs a scoring step reads: the models' outputs once the columns
\* are selected, the database and the producer once all five models answered
ReadsModels(t) == ~SelectRaises(lower(t))
Scores(t, mo) == ReadsModels(t) /\ \A m \in Models : ~Failed(mo[m])

\* poll returns a message: one pass of the loop body
ConsumeMessage(values, outputs) ==
    /\ running > 0
    /\ consumer # None
    /\ \E value \in values :
        \E mo \in Relevant(outputs, json_loads_ok(value) /\ ReadsModels(json_loads(value))) :
        \E dbo \in Relevant(StoreOutcomes,
                            json_loads_ok(value) /\ Scores(json_loads(value), mo)) :
        \E ko \in Relevant(ProduceOutcomes,
                           /\ json_loads_ok(value)
                           /\ Scores(json_loads(value), mo)
                           /\ ~StoreRaises(dbo)) :
          \E c \in {consume_message(value, mo, dbo, ko, db, out,
                                    scaler_amount, scaler_time, producer)} :
             /\ Len(c.table) <= MaxRows
             /\ Len(c.topic) <= MaxOut
             /\ db' = c.table
             /\ out' = c.topic
             /\ scaler_amount' = c.sa
             /\ scaler_time' = c.st
             /\ running' = IF c.res.escaped THEN running - 1 ELSE running
             /\ res' = c.res
    /\ UNCHANGED Config

\* POST /predict
Predict(txs, outputs) ==
    /\ \E t \in txs, mo \in outputs :
        \E dbo \in Relevant(StoreOutcomes, Scores(t, mo) /\ DB_AVAILABLE) :
        \E ko \in Relevant(ProduceOutcomes,
                           Scores(t, mo) /\ KAFKA_AVAILABLE /\ producer # None) :
          \E p \in {predict_transaction(t, mo, dbo, ko, db, out, scaler_amount,
                                        scaler_time, producer, DB_AVAILABLE,
                                        KAFKA_AVAILABLE)} :
             /\ Len(p.table) <= MaxRows
             /\ Len(p.topic) <= MaxOut
             /\ db' = p.table
             /\ out' = p.topic
             /\ scaler_amount' = p.sa
             /\ scaler_time' = p.st
             /\ res' = p.res
    /\ UNCHANGED <<Config, running>>

\* GET /transaction/{transaction_id}
Lookup ==
    /\ \E id \in Ids, dbo \in QueryOutcomes :
          res' = get_transaction_result(id, dbo, db, DB_AVAILABLE)
    /\ UNCHANGED <<Config, scaler_amount, scaler_time, db, out, running>>

\* process_transaction called on its own
Process(txs, outputs) ==
    /\ \E t \in txs :
        \E mo \in Relevant(outputs, ReadsModels(t)) :
        \E pt \in {process_transaction(t, mo, scaler_amount, scaler_time)} :
             /\ scaler_amount' = pt.sa
             /\ scaler_time' = pt.st
             /\ res' = [op |-> "process", tx |-> t, raised |-> pt.out.raised,
                        failedAt |-> pt.out.failedAt, invoked |-> pt.invoked,
                        fv |-> pt.fv, predictions |-> pt.out.predictions,
                        found |-> <<scaler_amount, scaler_time>>]
    /\ UNCHANGED <<Config, db, out, running>>

ConsumeStream == ConsumeMessage(StreamValues, SysOutputs)
PredictSync == Predict(SyncTxs, SyncOutputs)

Next ==
    \/ StartConsuming
    \/ ConsumeNoConsumer
    \/ ConsumeIdle
    \/ ConsumeStream
    \/ PredictSync
    \/ Lookup

Spec == Init /\ [][Next]_vars

\* The scoring function and the synchronous call with neither database nor
\* Kafka available, over the whole grid of model outputs.
InitScore ==
    /\ DB_AVAILABLE = FALSE
    /\ KAFKA_AVAILABLE = FALSE
    /\ producer = None
    /\ consumer = None
    /\ Loaded

PredictGrid == Predict(SyncTxs, GridOutputs \cup RaisingOutputs(EnsTie))
ProcessAny == Process(AnyTxs, AnyOutputs)

NextScore ==
    \/ PredictGrid
    \/ ProcessAny

SpecScore == InitScore /\ [][NextScore]_vars

\* The synchronous call and the lookup alone, with database and Kafka
\* available: no stream message is ever stored. Two of the model outputs
\* differ in the network's answer only.
EnsHighK == [EnsHigh EXCEPT !["keras"] = Row(16)]
KerasOutputs == {EnsLow, EnsHigh, EnsHighK}

InitSync ==
    /\ DB_AVAILABLE = TRUE
    /\ KAFKA_AVAILABLE = TRUE
    /\ producer = "Producer"
    /\ consumer = "Consumer"
    /\ Loaded

PredictKeras == Predict(SyncTxs, KerasOutputs)

NextSync ==
    \/ PredictKeras
    \/ Lookup

SpecSync == InitSync /\ [][NextSync]_vars

\* The stream path and the lookup, with model outputs that a REAL column
\* holds exactly and outputs that it does not, for a payload spelled in
\* lower case and one spelled in upper case.
EnsOdd == Ensemble(Row(17), Row(15), Margin(2), Row(11), Row(9))
RoundOutputs == {EnsHigh, EnsOdd}
RoundValues == {json_dumps(TxA), json_dumps(MkTx("b", {"amount", "time"}, 7, 2, 0, TRUE))}

ConsumeRound == ConsumeMessage(RoundValues, RoundOutputs)

NextRound ==
    \/ StartConsuming
    \/ ConsumeRound
    \/ Lookup

SpecRound == InitSync /\ [][NextRound]_vars

\* ================================================================== claims
Scored(r) == DOMAIN r.predictions = Models
StreamPass(r) == r.op = "consume" /\ r.poll = "msg"
CountOf(q, x) == Cardinality({i \in DOMAIN q : q[i] = x})
KeyedBy(topic, id) == {i \in DOMAIN topic : topic[i].key = TextKey(id)}

\* C1: lookup by identifier answers "aprobada" only if the stored kneighbors
\* pair has non_fraud > fraud, and "fraude" whenever fraud >= non_fraud
\* (the claim; the code answers the other way round).
C1_LookupStatusFollowsKNN ==
    (res.op = "lookup" /\ res.status_code = 200) =>
        /\ (res.status = "aprobada" => res.details.kneighbors[1] > res.details.kneighbors[2])
        /\ (res.details.kneighbors[2] >= res.details.kneighbors[1] => res.status = "fraude")

\* C2: a successful synchronous scoring answers with the arithmetic mean of
\* the fraud probabilities of logistic, kneighbors, svc and tree, and with
\* is_fraud true exactly when that mean exceeds one half.
C2_EnsembleMean ==
    (res.op = "predict" /\ res.response.status = 200) =>
        LET p == res.response.models_predictions
            total == p["logistic"][2] + p["kneighbors"][2] + p["svc"].fraud + p["tree"][2]
            fp == res.response.fraud_probability
        IN /\ 4 * fp.num = total * fp.den
           /\ res.response.is_fraud <=> (total > 2 * Scale)
\* a mean of exactly one half answered as non-fraud
C2_Witness ==
    /\ res.op = "predict" /\ res.response.status = 200
    /\ 2 * res.response.fraud_probability.num = res.response.fraud_probability.den * Scale
    /\ ~res.response.is_fraud

C4_StoreAndPublishIndependent ==
    (StreamPass(res) /\ Scored(res)) =>
        /\ res.store # "skipped"
        /\ res.publish # "skipped"
        /\ (res.publish = "fail" /\ res.store = "ok" => res.stored)

\* C5: scoring yields all five models' results or raises; when it raised,
\* neither path stores or publishes, and no stored or published result is partial.
C5_AllOrNothing ==
    /\ (res.op = "predict" \/ StreamPass(res)) =>
          /\ Scored(res) \/ res.failedAt \in {"parse", "normalize", "score"}
          /\ ~Scored(res) =>
                res.store = "skipped" /\ ~res.stored /\ res.publish = "skipped"
    /\ \A i \in DOMAIN out : DOMAIN json_loads(out[i].value) = Models
\* a model raised after others had answered, on the stream path
C5_Witness ==
    /\ StreamPass(res) /\ res.failedAt = "score"
    /\ res.invoked = {"logistic", "kneighbors", "svc"}
    /\ Len(db) > 0

\* C6 (as claimed): get_transaction returns None exactly when no record has
\* the identifier, and otherwise the matching record of highest id.
C6_LatestOrNone ==
    (res.op = "lookup" /\ res.status_code \in {200, 404}) =>
        /\ res.status_code = 404 <=> Matching(db, res.transaction_id) = {}
        /\ res.status_code = 200 =>
              \E i \in Matching(db, res.transaction_id) :
                  /\ \A j \in Matching(db, res.transaction_id) : db[j].id <= db[i].id
                  /\ res.details = RowResult(db[i])
\* C6 (amended): when it returns a record, that is the matching record of
\* highest id; it returns None exactly when no record has the identifier or
\* the query itself failed.
C6_LatestOrNoneOrQueryFailed ==
    (res.op = "lookup" /\ res.status_code \in {200, 404}) =>
        /\ res.status_code = 404 <=>
              (Matching(db, res.transaction_id) = {} \/ res.query = "execute_fail")
        /\ res.status_code = 200 =>
              \E i \in Matching(db, res.transaction_id) :
                  /\ \A j \in Matching(db, res.transaction_id) : db[j].id <= db[i].id
                  /\ res.details = RowResult(db[i])
\* two different records for one identifier, the second one returned
C6_Witness ==
    /\ res.op = "lookup" /\ res.status_code = 200
    /\ Cardinality(Matching(db, res.transaction_id)) = 2
    /\ RowResult(db[1]) # RowResult(db[2])
    /\ res.details = RowResult(db[2])

\* C7: once fitted, the parameters of the amount and time scalers are never
\* changed by a later call (the claim; every call fits them again).
C7_ScalerFittedOnce ==
    [][/\ scaler_amount.fitted => scaler_amount' = scaler_amount
       /\ scaler_time.fitted => scaler_time' = scaler_time]_vars

\* C8: the synchronous call answers 500 without a decision whenever scoring
\* failed, and a 200 response always carries a decision made from all five
\* models' results.
C8_NoPartialDecision ==
    res.op = "predict" =>
        /\ res.failedAt # "no" => res.response = [status |-> 500]
        /\ res.response.status = 200 =>
              /\ res.failedAt = "no"
              /\ res.invoked = Models
              /\ DOMAIN res.response.models_predictions = Models
\* a model raised inside the synchronous call
C8_Witness ==
    /\ res.op = "predict" /\ res.failedAt = "score"
    /\ res.response.status = 500

\* C9: a transaction lacking one of v1..v28 fails in normalization and no
\* model is invoked for it.
C9_MissingFeatureNeverScored ==
    (res.op = "process" /\ res.tx.missing \in 1..NumV) =>
        /\ res.raised
        /\ res.failedAt = "normalize"
        /\ res.invoked = {}
\* an upper-case transaction without v14 was rejected
C9_Witness ==
    /\ res.op = "process" /\ res.tx.missing = 14 /\ res.tx.upper
    /\ res.raised

\* C10: a failed append of whatever kind leaves the ingestion loop running
\* and ready to poll again, and the append was attempted once only.
C10_StoreFailureKeepsLoop ==
    (StreamPass(res) /\ res.store \in StoreOutcomes \ {"ok"}) =>
        /\ ~res.escaped
        /\ running >= 1 /\ consumer # None
        /\ CountOf(res.trace, "persist") = 1
        /\ ~res.stored
\* the connection could not be obtained and the loop is still there
C10_Witness ==
    /\ StreamPass(res) /\ res.store = "connect_fail"
    /\ running >= 1

\* C11: at any time at most one consume_transactions task is polling the
\* shared consumer, whatever start-consuming requests were received (the
\* claim; every request adds one more task).
C11_AtMostOneLoop == consumer # None => running <= 1

\* C12: a store_transaction or get_transaction call that obtained a
\* connection has closed it by the time it returns or raises (the claim;
\* the cursor is requested before the try, so its failure skips the close).
C12_ConnectionReleased ==
    (res.op \in {"predict", "lookup"} \/ StreamPass(res)) => res.connection # "open"

\* C13: a store_transaction call that commits adds exactly one record, with
\* an id no earlier record has, after the records already stored and leaves
\* those as they were; a call that does not commit leaves the table as it was.
C13_PureInsert ==
    [][(res'.op = "predict" \/ StreamPass(res')) =>
          /\ res'.stored =>
                /\ Len(db') = Len(db) + 1
                /\ SubSeq(db', 1, Len(db)) = db
                /\ \A i \in DOMAIN db : db[i].id # db'[Len(db')].id
          /\ ~res'.stored => db' = db]_vars
\* a second record committed by the synchronous call, the first one still there
C13_Witness ==
    /\ res.op = "predict" /\ res.stored
    /\ Len(db) = 2

\* C14: the feature vector a call computes for a transaction is the one the
\* same transaction yields on never-fitted scalers, whatever the calls before
\* it left in the two module-level scalers: two normalizations of one
\* transaction agree.
C14_NormalizeDeterministic ==
    (res.op \in {"process", "predict"} /\ res.failedAt # "normalize") =>
        res.fv = process_transaction(res.tx, EnsTie, RobustScaler, RobustScaler).fv
\* normalized on scalers that a transaction of another amount and another
\* time had fitted
C14_Witness ==
    /\ res.op = "process" /\ res.failedAt # "normalize"
    /\ res.found[1].fitted /\ res.found[1].center # scaler_amount.center
    /\ res.found[2].fitted /\ res.found[2].center # scaler_time.center
    /\ Len(res.fv) = NumV + 2

\* C15: a transaction with all of v1..v28 but without amount, time or both
\* never fails in normalization: 0 is what the scaler of each missing field
\* is fitted on, and unless a model raises the call returns all five results.
C15_MissingAmountTimeScored ==
    (/\ res.op = "process"
     /\ res.tx.missing = 0
     /\ res.tx.has # {"amount", "time"}) =>
        /\ res.failedAt \in {"no", "score"}
        /\ res.failedAt = "no" => ~res.raised /\ Scored(res) /\ res.invoked = Models
        /\ "amount" \notin res.tx.has => scaler_amount = fit(0)
        /\ "time" \notin res.tx.has => scaler_time = fit(0)
        /\ Len(res.fv) = NumV + 2
\* a transaction with neither amount nor time was scored by all five models
C15_Witness ==
    /\ res.op = "process" /\ res.tx.missing = 0 /\ res.tx.has = {}
    /\ ~res.raised /\ Scored(res)

\* C16: for a transaction that has v1..v28, with or without an identifier
\* and in either spelling of the field names, the vector handed to the
\* models has NumV + 2 components: the amount and the time as the freshly
\* fitted scalers transform them, then v1..v28 in ascending order with the
\* values of the input.
C16_FeatureVectorLayout ==
    (res.op = "process" /\ res.tx.missing = 0) =>
        /\ Len(res.fv) = NumV + 2
        /\ res.fv[1] = transform(scaler_amount,
                                 IF "amount" \in res.tx.has THEN res.tx.amount ELSE 0)
        /\ res.fv[2] = transform(scaler_time,
                                 IF "time" \in res.tx.has THEN res.tx.time ELSE 0)
        /\ \A i \in 1..NumV : res.fv[2 + i] = VValue(i)
\* an upper-case transaction carrying an identifier went through all models
C16_Witness ==
    /\ res.op = "process" /\ res.tx.missing = 0
    /\ res.tx.upper /\ res.tx.id = "a"
    /\ res.invoked = Models /\ ~res.raised
    /\ Len(res.fv) = NumV + 2

\* the steps of one delivery in the order the state machine gives them
StepOrder ==
    <<"receive", "parse", "normalize", "score", "persist", "publish", "acknowledge">>
StepPos(s) == CHOOSE i \in DOMAIN StepOrder : StepOrder[i] = s
InStepOrder(trace) ==
    \A i, j \in DOMAIN trace : i < j => StepPos(trace[i]) < StepPos(trace[j])
Performed(r, s) == \E i \in DOMAIN r.trace : r.trace[i] = s

\* C17: the steps of a delivery are performed in the order receive,
\* normalize, score, persist, publish, acknowledge: persist only after
\* scoring succeeded, publish only after the persist attempt, the
\* acknowledgement last, and no step after the one that failed (the claim;
\* the loop performs no acknowledgement at all).
C17_StepsInOrder ==
    StreamPass(res) =>
        /\ InStepOrder(res.trace)
        /\ Performed(res, "persist") => Performed(res, "score") /\ Scored(res)
        /\ Performed(res, "publish") => Performed(res, "persist")
        /\ res.failedAt = "no" => res.trace[Len(res.trace)] = "acknowledge"
        /\ res.failedAt # "no" =>
              \A s \in {"normalize", "score", "persist", "publish", "acknowledge"} :
                  StepPos(s) > StepPos(res.failedAt) => ~Performed(res, s)

\* C18: a delivery whose value is no JSON, or whose normalization or scoring
\* raises, is given up in the same pass: nothing is stored or published for
\* it, no step is tried a second time, the exception stays inside the loop,
\* and the same tasks go on polling the consumer.
C18_ContentErrorDropped ==
    [][(StreamPass(res') /\ res'.failedAt \in {"parse", "normalize", "score"}) =>
          /\ db' = db /\ out' = out
          /\ res'.store = "skipped" /\ ~res'.stored /\ res'.publish = "skipped"
          /\ \A s \in {"receive", "parse", "normalize", "score"} :
                CountOf(res'.trace, s) <= 1
          /\ ~res'.escaped
          /\ running' = running /\ running' >= 1 /\ consumer' # None]_vars
\* a value that is no JSON arrived after a record had been stored
C18_Witness ==
    /\ StreamPass(res) /\ res.failedAt = "parse"
    /\ Len(db) = 1 /\ running >= 1

\* C19: a pass whose poll returns a message with error() set logs it and
\* does nothing else: no step of a delivery is performed (nothing scored,
\* stored, published or acknowledged), and the same tasks keep polling; a
\* pass whose poll returns nothing logs nothing and only sleeps.
C19_PollErrorLeavesStream ==
    [][(res'.op = "consume" /\ res'.poll \in {"error", "none"}) =>
          /\ db' = db /\ out' = out
          /\ scaler_amount' = scaler_amount /\ scaler_time' = scaler_time
          /\ res'.trace = <<>> /\ res'.invoked = {}
          /\ res'.store = "skipped" /\ ~res'.stored /\ res'.publish = "skipped"
          /\ res'.failedAt = "no" /\ ~res'.escaped
          /\ running' = running /\ running' >= 1 /\ consumer' # None
          /\ res'.poll = "error" => res'.logged
          /\ res'.poll = "none" => ~res'.logged /\ res'.yielded]_vars
\* a poll error after a record had been stored, the loop still there
C19_Witness ==
    /\ res.op = "consume" /\ res.poll = "error"
    /\ Len(db) = 1 /\ running >= 1

\* C20: the synchronous call answers without waiting for store_transaction
\* or send_to_topic, so neither has run to its end when the response is
\* made, and whatever happens to them the call answers 200 with the
\* decision computed from the predictions alone (the claim; the handler
\* calls both and returns only after they have returned).
C20_FireAndForget ==
    (res.op = "predict" /\ res.failedAt = "no") =>
        /\ \A i, j \in DOMAIN res.trace :
              (res.trace[i] = "respond" /\ res.trace[j] \in {"store", "publish"}) => i < j
        /\ res.response = [status |-> 200,
                           is_fraud |-> is_fraud(avg_fraud_prob(res.predictions)),
                           fraud_probability |-> avg_fraud_prob(res.predictions),
                           models_predictions |-> res.predictions]

\* the answers the network may give in place of the one it gave
KerasRows == {Row(f) : f \in {2, 8, 12, 16}}
WithKeras(predictions, k) ==
    [predictions EXCEPT !["keras"] = [non_fraud |-> k.row[1], fraud |-> k.row[2]]]

\* C21: the verdict of a successful synchronous call is the one every
\* PredictionSet that differs from the actual one only in keras would have
\* got, while the keras pair itself is in the response, in the row stored
\* and in the message published.
C21_VerdictIgnoresKeras ==
    (res.op = "predict" /\ res.response.status = 200) =>
        /\ \A k \in KerasRows :
              /\ res.response.is_fraud
                    = is_fraud(avg_fraud_prob(WithKeras(res.predictions, k)))
              /\ res.response.fraud_probability
                    = avg_fraud_prob(WithKeras(res.predictions, k))
        /\ res.response.models_predictions["keras"] = res.predictions["keras"]
        /\ res.stored =>
              /\ db[Len(db)].keras_fraud = REAL(res.predictions["keras"].fraud)
              /\ db[Len(db)].keras_non_fraud = REAL(res.predictions["keras"].non_fraud)
        /\ res.publish = "ok" =>
              json_loads(out[Len(out)].value)["keras"] = res.predictions["keras"]
\* stored and published with a network answer on the other side of one half
\* than the verdict
C21_Witness ==
    /\ res.op = "predict" /\ res.response.status = 200
    /\ res.stored /\ res.publish = "ok"
    /\ res.response.is_fraud
    /\ 2 * res.predictions["keras"].fraud < Scale
    /\ Len(db) = 2 /\ db[1].keras_fraud # db[2].keras_fraud

\* what a lookup has to return for the delivery r if nothing is lost on the
\* way: the payload, and each model's pair as process_transaction shaped it
RoundTrip(r) ==
    [none |-> FALSE,
     transaction_json |-> json_loads(r.value),
     logistic |-> r.predictions["logistic"],
     kneighbors |-> r.predictions["kneighbors"],
     svc |-> r.predictions["svc"],
     tree |-> r.predictions["tree"],
     keras |-> r.predictions["keras"]]

\* C22: right after a delivery with identifier id was stored, so with no
\* later append for id, get_transaction(id) returns its payload and, for
\* each of the five models, the values of its PredictionSet in the same
\* positions and shapes (the claim; the REAL columns keep single precision
\* only).
C22_StoreLookupRoundTrip ==
    (/\ StreamPass(res) /\ res.stored
     /\ HasField(json_loads(res.value), "transaction_id")) =>
        get_transaction(db, get_transaction_id(json_loads(res.value), ""), "ok").value
            = RoundTrip(res)

\* C23: when only the synchronous call has stored records, no record
\* matches any identifier: get_transaction returns None for every
\* identifier, and a lookup never answers with a record and answers 404
\* whenever its query was made.
C23_SyncRecordsNotRetrievable ==
    /\ \A id \in Ids :
          /\ Matching(db, id) = {}
          /\ get_transaction(db, id, "ok").value = NoRecord
    /\ res.op = "lookup" =>
          /\ res.status_code # 200
          /\ res.query \in {"ok", "execute_fail"} => res.status_code = 404
\* two records stored by the synchronous call and a lookup answered 404
C23_Witness ==
    /\ res.op = "lookup" /\ res.query = "ok" /\ res.status_code = 404
    /\ Len(db) = 2

====
